---------------------------- MODULE Spec2Model ----------------------------
(***************************************************************************)
(* Ai-Virtual-Try-On: the session controller (App.tsx), the result viewer  *)
(* (components/ResultDisplay.tsx), the image uploader                      *)
(* (components/ImageUploader.tsx) and the generation service               *)
(* (services/geminiService) as one state machine.                          *)
(*                                                                         *)
(* One action is one browser task: a user event handler, the continuation  *)
(* of an awaited promise, or a timer callback.  React applies all the      *)
(* state updates a task makes before the next task runs, so every action   *)
(* is atomic and reads the state of the last render.                       *)
(*                                                                         *)
(* A user event is enabled exactly when the element that carries its       *)
(* handler is rendered and not disabled.  The modal overlay covers the     *)
(* page for the pointer only: the elements behind it stay in the document  *)
(* and in the tab order (there is no focus trap), so their handlers stay   *)
(* reachable from the keyboard.                                            *)
(***************************************************************************)
EXTENDS Integers, Sequences, FiniteSets

(***************************************************************************)
(* Bounds of the model.                                                    *)
(***************************************************************************)
\* Date.now() takes the values 1..MaxTime.
MaxTime == 2
\* Collaborator calls that may be pending at once (the code has no limit).
MaxInFlight == 2
\* Ingestions (decode and re-encode of a file) that may be pending at once.
MaxIngest == 1
\* Pointer coordinates are 0..MaxCoord on each axis.
MaxCoord == 1
\* The pan offset is kept within -MaxPan..MaxPan on each axis.
MaxPan == 1
\* Deferred viewer resets (setTimeout of closeModal) that may be pending.
MaxTimers == 1

(***************************************************************************)
(* Program constants.                                                      *)
(***************************************************************************)
\* App.tsx:40, slice(0, 5)
HISTORY_LIMIT == 5
\* ImageUploader.tsx:22
MAX_DIMENSION == 1024
\* ResultDisplay.tsx:22-24 and :99.  Zoom levels are counted in tenths:
\* 1.0 is 10, 5.0 is 50, the button step 0.2 is 2, the wheel step 0.1 is 1.
MAX_ZOOM == 50
MIN_ZOOM == 10
ZOOM_STEP == 2
WHEEL_STEP == 1

\* JavaScript's null.
null == [tag |-> "null"]
\* error === null
NoError == "null"

Min(a, b) == IF a < b THEN a ELSE b
Max(a, b) == IF a > b THEN a ELSE b

\* Seq s without its i-th element.
RemoveAt(s, i) == SubSeq(s, 1, i - 1) \o SubSeq(s, i + 1, Len(s))

origin == [x |-> 0, y |-> 0]

VARIABLES
    \* App.tsx:11-14, persisted session state
    modelImage, garmentImage, history, customPrompt,
    \* App.tsx:16-19, ephemeral state of App
    generatedImage, isLoading, error, isAdvancedOpen,
    \* number of pending calls of generateVirtualTryOnImage (App.tsx:33)
    inflight,
    \* pending resizeAndProcessImage promises (ImageUploader.tsx:67), each
    \* <<slot, file>>
    ingesting,
    \* Date.now()
    now,
    \* ResultDisplay.tsx:28-32, the viewer
    isModalOpen, zoom, position, isDragging, dragStart,
    \* pending setTimeout callbacks of closeModal (ResultDisplay.tsx:69)
    resetTimers,
    \* window.localStorage: for each key the stored item, as the syntax tree
    \* of its JSON text, or Missing (useLocalStorageState.ts:8, 24, 26)
    store,
    \* TRUE while the operations of window.localStorage throw (storage
    \* denied or its quota exhausted)
    storageFails,
    \* History variables, written by the observers of the specifications
    \* below and read by no action of the program:
    \* requests: for each pending collaborator call, activeResult and history
    \*   as they were just before the call was started
    \* lastEvent: the task that ran last ("Other" for the tasks no property
    \*   of the specification tells apart)
    requests, lastEvent

sessionVars == <<modelImage, garmentImage, history, customPrompt, store>>
appVars == <<generatedImage, isLoading, error, isAdvancedOpen>>
asyncVars == <<inflight, ingesting, storageFails>>
viewerVars == <<isModalOpen, zoom, position, isDragging, dragStart, resetTimers>>
progVars == <<sessionVars, appVars, asyncVars, now, viewerVars>>
vars == <<progVars, requests, lastEvent>>

(***************************************************************************)
(* The durable store (hooks/useLocalStorageState.ts).  A stored item is    *)
(* the syntax tree of a JSON text; Malformed is a text JSON.parse rejects. *)
(***************************************************************************)
Keys == {"vto-modelImage", "vto-garmentImage", "vto-history", "vto-customPrompt"}

\* getItem of an absent key returns null
Missing == [t |-> "missing"]
Malformed == [t |-> "malformed"]

\* App.tsx:11-14, the state kept under a key
Field(key) ==
    CASE key = "vto-modelImage" -> modelImage
      [] key = "vto-garmentImage" -> garmentImage
      [] key = "vto-history" -> history
      [] key = "vto-customPrompt" -> customPrompt

\* App.tsx:11-14, the default value given for a key
DefaultOf(key) ==
    CASE key = "vto-modelImage" -> null
      [] key = "vto-garmentImage" -> null
      [] key = "vto-history" -> <<>>
      [] key = "vto-customPrompt" -> ""

\* Mutant: members whose value is false are left out of the text.
StringifyImage_DropsFalse(img) ==
    [t |-> "object",
     members |-> [n \in { m \in DOMAIN img : m # "isFavorite" \/ img[m] } |->
                    IF n = "isFavorite"
                    THEN [t |-> "true"]
                    ELSE [t |-> "string", s |-> img[n]]]]

\* JSON.stringify of an ImageFile: an object text with one member for each
\* own property; isFavorite is a boolean, the other properties are strings
StringifyImage(img) ==
    [t |-> "object",
     members |-> [n \in DOMAIN img |->
                    IF n = "isFavorite"
                    THEN [t |-> (IF img[n] THEN "true" ELSE "false")]
                    ELSE [t |-> "string", s |-> img[n]]]]

\* useLocalStorageState.ts:26, JSON.stringify(state) for the type of state
\* kept under key (App.tsx:11-14)
JSONstringify(key, state) ==
    CASE key \in {"vto-modelImage", "vto-garmentImage"} ->
            IF state = null THEN [t |-> "null"] ELSE StringifyImage(state)
      [] key = "vto-history" ->
            [t |-> "array",
             items |-> [i \in 1..Len(state) |-> StringifyImage(state[i])]]
      [] key = "vto-customPrompt" -> [t |-> "string", s |-> state]

\* useLocalStorageState.ts:10, JSON.parse of a well-formed text
RECURSIVE JSONparse(_)
JSONparse(text) ==
    CASE text.t = "null" -> null
      [] text.t = "true" -> TRUE
      [] text.t = "false" -> FALSE
      [] text.t = "string" -> text.s
      [] text.t = "array" ->
            [i \in 1..Len(text.items) |-> JSONparse(text.items[i])]
      [] text.t = "object" ->
            [n \in DOMAIN text.members |-> JSONparse(text.members[n])]

\* Mutant: a throwing getItem is not noticed.
LoadFrom_IgnoresFailure(st, fails, key, defaultValue) ==
    IF st[key] = Missing \/ st[key] = Malformed
    THEN defaultValue
    ELSE JSONparse(st[key])

\* useLocalStorageState.ts:5-17, the initial state read from the store st
\* when its operations throw (fails) or not
LoadFrom(st, fails, key, defaultValue) ==
    IF fails \/ st[key] = Missing \/ st[key] = Malformed
    THEN defaultValue
    ELSE JSONparse(st[key])

\* Mutant: null and the empty array are written like any other state.
StoredItem_WritesEmpty(key, state) == JSONstringify(key, state)

\* useLocalStorageState.ts:22-27, the item the effect leaves under key
StoredItem(key, state) ==
    IF \/ key \in {"vto-modelImage", "vto-garmentImage"} /\ state = null
       \/ key = "vto-history" /\ Len(state) = 0
    THEN Missing
    ELSE JSONstringify(key, state)

\* Mutant: the effect is forgotten.
Persist_Never(dirty) == UNCHANGED store

\* useLocalStorageState.ts:20-31, the effects of the hooks whose state was
\* set in this step (dirty); a throwing operation is caught and logged
Persist(dirty) ==
    store' = [k \in Keys |->
                IF k \in dirty /\ ~storageFails
                THEN StoredItem(k, Field(k)')
                ELSE store[k]]

\* The store after every effect has written its state.
Mirror == [k \in Keys |-> StoredItem(k, Field(k))]

\* window.localStorage starts or stops throwing.
StorageChange ==
    /\ storageFails' = ~storageFails
    /\ UNCHANGED <<sessionVars, appVars, inflight, ingesting, now, viewerVars>>

(***************************************************************************)
(* Image ingestion (ImageUploader.tsx).                                    *)
(***************************************************************************)
\* Math.round of the non-negative rational n / d (round half up).
RoundDiv(n, d) == (2 * n + d) \div (2 * d)

\* Mutant: the scaled edge is truncated instead of rounded.
ConstrainedSize_Truncates(width, height) ==
    IF width > MAX_DIMENSION \/ height > MAX_DIMENSION
    THEN IF width > height
         THEN <<MAX_DIMENSION, (height * MAX_DIMENSION) \div width>>
         ELSE <<(width * MAX_DIMENSION) \div height, MAX_DIMENSION>>
    ELSE <<width, height>>

\* ImageUploader.tsx:23-33, the constrained <<width, height>>
ConstrainedSize(width, height) ==
    IF width > MAX_DIMENSION \/ height > MAX_DIMENSION
    THEN IF width > height
         THEN <<MAX_DIMENSION, RoundDiv(height * MAX_DIMENSION, width)>>
         ELSE <<RoundDiv(width * MAX_DIMENSION, height), MAX_DIMENSION>>
    ELSE <<width, height>>

\* ImageUploader.tsx:47-50; ratio > 1.1 is 10 w > 11 h, ratio < 0.9 is 10 w < 9 h
AspectOf(width, height) ==
    IF 10 * width > 11 * height THEN "landscape"
    ELSE IF 10 * width < 9 * height THEN "portrait"
    ELSE "square"

\* Mutant: the aspect ratio is taken from the size of the file's raster.
resizeAndProcessImage_AspectOfInput(file) ==
    LET size == ConstrainedSize(file.width, file.height)
    IN  [id |-> "uuid",
         data |-> [raster |-> file.data, width |-> size[1], height |-> size[2]],
         mimeType |-> "image/jpeg",
         aspectRatio |-> AspectOf(file.width, file.height)]

\* ImageUploader.tsx:14-59: the ImageFile a decodable file resolves to.  Its
\* data is the JPEG encoding of the file's raster drawn on a canvas of the
\* constrained size; its id is crypto.randomUUID(), which the upload
\* handlers of App overwrite (App.tsx:86-87).
resizeAndProcessImage(file) ==
    LET size == ConstrainedSize(file.width, file.height)
    IN  [id |-> "uuid",
         data |-> [raster |-> file.data, width |-> size[1], height |-> size[2]],
         mimeType |-> "image/jpeg",
         aspectRatio |-> AspectOf(size[1], size[2])]

\* The file the user picks in the specifications of this module.
Files ==
    { [data |-> "A", width |-> 2000, height |-> 1000, decodable |-> TRUE] }

Slots == {"model", "garment"}

(***************************************************************************)
(* The generation service (services/geminiService).                        *)
(***************************************************************************)
\* What ai.models.generateContent may do: return a response whose first
\* candidate holds an image part, return one without, or reject.
Responses ==
    { [kind |-> "image", data |-> "R", mimeType |-> "image/png"],
      [kind |-> "noimage"] }

\* Mutant: the service reports another default aspect ratio.
ServiceResult_Square(response) ==
    [data |-> response.data, mimeType |-> response.mimeType,
     aspectRatio |-> "square"]

\* part_001:54-62
ServiceResult(response) ==
    [data |-> response.data, mimeType |-> response.mimeType,
     aspectRatio |-> "portrait"]

\* part_001:64-72
ServiceError(response) ==
    IF response.kind = "noimage"
    THEN "Failed to generate image: API did not return an image."
    ELSE "Failed to generate image: " \o response.message

(***************************************************************************)
(* Session controller (App.tsx).                                           *)
(***************************************************************************)
\* App.tsx:92
canGenerate == modelImage # null /\ garmentImage # null /\ ~isLoading

\* ResultDisplay.tsx:125-253, the branch renderContent takes
renderContent ==
    IF isLoading THEN "loading"
    ELSE IF error # NoError THEN "error"
    ELSE IF generatedImage # null THEN "image"
    ELSE "placeholder"

\* App.tsx:34-38
NewImage(resultData) ==
    [id |-> now, data |-> resultData.data, mimeType |-> resultData.mimeType,
     aspectRatio |-> resultData.aspectRatio, isFavorite |-> FALSE]

\* Mutant: the slice is forgotten.
InsertHistory_NoSlice(newImage, prev) == <<newImage>> \o prev

\* Mutant: a full history drops its last non-favorite entry instead.
InsertHistory_KeepFavorites(newImage, prev) ==
    IF Len(prev) < HISTORY_LIMIT THEN <<newImage>> \o prev
    ELSE IF \E k \in 1..Len(prev) : ~prev[k].isFavorite
    THEN <<newImage>> \o RemoveAt(prev,
            CHOOSE k \in 1..Len(prev) :
               /\ ~prev[k].isFavorite
               /\ \A j \in (k + 1)..Len(prev) : prev[j].isFavorite)
    ELSE <<newImage>> \o SubSeq(prev, 1, HISTORY_LIMIT - 1)

\* App.tsx:40, [newImage, ...prev].slice(0, 5)
InsertHistory(newImage, prev) ==
    SubSeq(<<newImage>> \o prev, 1, Min(HISTORY_LIMIT, Len(prev) + 1))

\* Date.now() advances.
Tick ==
    /\ now < MaxTime
    /\ now' = now + 1
    /\ UNCHANGED <<sessionVars, appVars, asyncVars, viewerVars>>

\* Mutant: the validation of the slots is forgotten.
handleGenerate_NoValidation ==
    /\ inflight < MaxInFlight
    /\ isLoading' = TRUE
    /\ error' = NoError
    /\ generatedImage' = null
    /\ inflight' = inflight + 1
    /\ UNCHANGED <<sessionVars, isAdvancedOpen, ingesting, storageFails, now,
                   viewerVars>>

\* App.tsx:22-31, handleGenerate up to its await
handleGenerate ==
    IF modelImage = null \/ garmentImage = null
    THEN /\ error' = "Please upload both a person and a garment image."
         /\ UNCHANGED <<sessionVars, generatedImage, isLoading, isAdvancedOpen,
                        asyncVars, now, viewerVars>>
    ELSE /\ inflight < MaxInFlight
         /\ isLoading' = TRUE
         /\ error' = NoError
         /\ generatedImage' = null
         /\ inflight' = inflight + 1
         /\ UNCHANGED <<sessionVars, isAdvancedOpen, ingesting, storageFails,
                        now, viewerVars>>

\* App.tsx:149-156, the Generate button
GenerateClick ==
    /\ canGenerate
    /\ handleGenerate

\* ResultDisplay.tsx:149-155, the Try Again button of the error panel
RetryClick ==
    /\ renderContent = "error"
    /\ handleGenerate

\* App.tsx:33-40 and 43-45: a pending call resolves with an image
GenerateSucceed(response) ==
    /\ inflight > 0
    /\ response.kind = "image"
    /\ generatedImage' = NewImage(ServiceResult(response))
    /\ history' = InsertHistory(NewImage(ServiceResult(response)), history)
    /\ isLoading' = FALSE
    /\ inflight' = inflight - 1
    /\ Persist({"vto-history"})
    /\ UNCHANGED <<modelImage, garmentImage, customPrompt, error,
                   isAdvancedOpen, ingesting, storageFails, now, viewerVars>>

\* Mutant: the finally block is forgotten.
GenerateFail_KeepsLoading(response) ==
    /\ inflight > 0
    /\ response.kind # "image"
    /\ error' = ServiceError(response)
    /\ inflight' = inflight - 1
    /\ UNCHANGED <<sessionVars, generatedImage, isLoading, isAdvancedOpen,
                   ingesting, storageFails, now, viewerVars>>

\* Mutant: the failure also resets the history.
GenerateFail_ClearsHistory(response) ==
    /\ inflight > 0
    /\ response.kind # "image"
    /\ error' = ServiceError(response)
    /\ isLoading' = FALSE
    /\ inflight' = inflight - 1
    /\ history' = <<>>
    /\ Persist({"vto-history"})
    /\ UNCHANGED <<modelImage, garmentImage, customPrompt, generatedImage,
                   isAdvancedOpen, ingesting, storageFails, now, viewerVars>>

\* App.tsx:41-45: a pending call throws
GenerateFail(response) ==
    /\ inflight > 0
    /\ response.kind # "image"
    /\ error' = (IF ServiceError(response) # "" THEN ServiceError(response)
                 ELSE "An unknown error occurred.")
    /\ isLoading' = FALSE
    /\ inflight' = inflight - 1
    /\ UNCHANGED <<sessionVars, generatedImage, isAdvancedOpen, ingesting,
                   storageFails, now, viewerVars>>

\* Mutant: a failed write undoes the clearing of the history.
handleClearHistory_RollsBack ==
    /\ Len(history) > 0
    /\ history' = (IF storageFails THEN history ELSE <<>>)
    /\ generatedImage' = null
    /\ Persist({"vto-history"})
    /\ UNCHANGED <<modelImage, garmentImage, customPrompt, isLoading, error,
                   isAdvancedOpen, asyncVars, now, viewerVars>>

\* App.tsx:48-51, the Clear button of the history panel (App.tsx:174-185)
handleClearHistory ==
    /\ Len(history) > 0
    /\ history' = <<>>
    /\ generatedImage' = null
    /\ Persist({"vto-history"})
    /\ UNCHANGED <<modelImage, garmentImage, customPrompt, isLoading, error,
                   isAdvancedOpen, asyncVars, now, viewerVars>>

\* App.tsx:53-62, the Clear All button
handleClear ==
    /\ modelImage' = null
    /\ garmentImage' = null
    /\ generatedImage' = null
    /\ error' = NoError
    /\ isLoading' = FALSE
    /\ history' = <<>>
    /\ customPrompt' = ""
    /\ isAdvancedOpen' = FALSE
    /\ Persist({ k \in Keys : k = "vto-history" \/ Field(k) # DefaultOf(k) })
    /\ UNCHANGED <<asyncVars, now, viewerVars>>

\* Mutant: the displayed image is not updated with the history.
handleToggleFavorite_HistoryOnly(id) ==
    /\ history' = [k \in 1..Len(history) |->
                     IF history[k].id = id
                     THEN [history[k] EXCEPT !.isFavorite = ~@]
                     ELSE history[k]]
    /\ Persist({"vto-history"})
    /\ UNCHANGED <<modelImage, garmentImage, customPrompt, appVars, asyncVars,
                   now, viewerVars>>

\* Mutant: the toggled entries also move to the front of the history.
handleToggleFavorite_MovesToFront(id) ==
    /\ LET Hit(e) == e.id = id
           Miss(e) == e.id # id
           flipped == [k \in 1..Len(history) |->
                         IF history[k].id = id
                         THEN [history[k] EXCEPT !.isFavorite = ~@]
                         ELSE history[k]]
       IN  history' = SelectSeq(flipped, Hit) \o SelectSeq(flipped, Miss)
    /\ generatedImage' = (IF generatedImage # null /\ generatedImage.id = id
                          THEN [generatedImage EXCEPT !.isFavorite = ~@]
                          ELSE generatedImage)
    /\ Persist({"vto-history"})
    /\ UNCHANGED <<modelImage, garmentImage, customPrompt, isLoading, error,
                   isAdvancedOpen, asyncVars, now, viewerVars>>

\* App.tsx:64-74, called by the star of a history entry with the id of that
\* entry (part_002:37-38)
handleToggleFavorite(id) ==
    /\ history' = [k \in 1..Len(history) |->
                     IF history[k].id = id
                     THEN [history[k] EXCEPT !.isFavorite = ~@]
                     ELSE history[k]]
    /\ generatedImage' = (IF generatedImage # null /\ generatedImage.id = id
                          THEN [generatedImage EXCEPT !.isFavorite = ~@]
                          ELSE generatedImage)
    /\ Persist({"vto-history"})
    /\ UNCHANGED <<modelImage, garmentImage, customPrompt, isLoading, error,
                   isAdvancedOpen, asyncVars, now, viewerVars>>

\* Mutant: the comparator orders ids ascending.
HistoryCompare_Ascending(a, b) ==
    IF a.isFavorite /\ ~b.isFavorite THEN -1
    ELSE IF ~a.isFavorite /\ b.isFavorite THEN 1
    ELSE a.id - b.id

\* App.tsx:77-83, the comparator of sortedHistory; parseInt(x.id) is x.id
HistoryCompare(a, b) ==
    IF a.isFavorite /\ ~b.isFavorite THEN -1
    ELSE IF ~a.isFavorite /\ b.isFavorite THEN 1
    ELSE b.id - a.id

\* Array.prototype.sort is stable: x goes before the first entry it compares
\* less than, after every entry it compares equal to
RECURSIVE SortedInsert(_, _)
SortedInsert(x, sorted) ==
    IF sorted = <<>> THEN <<x>>
    ELSE IF HistoryCompare(x, Head(sorted)) < 0 THEN <<x>> \o sorted
    ELSE <<Head(sorted)>> \o SortedInsert(x, Tail(sorted))

\* App.tsx:77, [...entries].sort(comparator)
RECURSIVE StableSort(_)
StableSort(entries) ==
    IF entries = <<>> THEN <<>>
    ELSE SortedInsert(entries[Len(entries)],
                      StableSort(SubSeq(entries, 1, Len(entries) - 1)))

\* App.tsx:76-84, the order in which History shows the entries (App.tsx:188)
sortedHistory == StableSort(history)

\* App.tsx:88, a click on the k-th stored history entry (part_002:24)
handleHistorySelect(k) ==
    /\ k \in 1..Len(history)
    /\ generatedImage' = history[k]
    /\ UNCHANGED <<sessionVars, isLoading, error, isAdvancedOpen, asyncVars,
                   now, viewerVars>>

\* App.tsx:129, the Advanced Options button
toggleAdvanced ==
    /\ isAdvancedOpen' = ~isAdvancedOpen
    /\ UNCHANGED <<sessionVars, generatedImage, isLoading, error, asyncVars,
                   now, viewerVars>>

\* App.tsx:135-143, the textarea of the advanced panel
setCustomPrompt(text) ==
    /\ isAdvancedOpen
    /\ text # customPrompt
    /\ customPrompt' = text
    /\ Persist({"vto-customPrompt"})
    /\ UNCHANGED <<modelImage, garmentImage, history, appVars, asyncVars,
                   now, viewerVars>>

\* App.tsx:86-87, setXImage(prev => ({...img, id: prev?.id || Date.now()}))
UploadedImage(img, prev) ==
    [img EXCEPT !.id = IF prev # null THEN prev.id ELSE now]

\* ImageUploader.tsx:74-79 and 65-67: a file is picked, its ingestion starts
StartIngest(slot, file) ==
    /\ Len(ingesting) < MaxIngest
    /\ ingesting' = Append(ingesting, <<slot, file>>)
    /\ UNCHANGED <<sessionVars, appVars, inflight, storageFails, now,
                   viewerVars>>

\* ImageUploader.tsx:67-68 with App.tsx:86-87: ingestion i resolves
IngestResolve(i) ==
    /\ i \in 1..Len(ingesting)
    /\ ingesting[i][2].decodable
    /\ modelImage' =
         (IF ingesting[i][1] = "model"
          THEN UploadedImage(resizeAndProcessImage(ingesting[i][2]), modelImage)
          ELSE modelImage)
    /\ garmentImage' =
         (IF ingesting[i][1] = "garment"
          THEN UploadedImage(resizeAndProcessImage(ingesting[i][2]), garmentImage)
          ELSE garmentImage)
    /\ ingesting' = RemoveAt(ingesting, i)
    /\ Persist({IF ingesting[i][1] = "model" THEN "vto-modelImage"
                ELSE "vto-garmentImage"})
    /\ UNCHANGED <<history, customPrompt, appVars, inflight, storageFails, now,
                   viewerVars>>

\* Mutant: a failed ingestion empties the slot it was meant for.
IngestReject_ClearsSlot(i) ==
    /\ i \in 1..Len(ingesting)
    /\ ~ingesting[i][2].decodable
    /\ modelImage' = (IF ingesting[i][1] = "model" THEN null ELSE modelImage)
    /\ garmentImage' =
         (IF ingesting[i][1] = "garment" THEN null ELSE garmentImage)
    /\ ingesting' = RemoveAt(ingesting, i)
    /\ Persist({IF ingesting[i][1] = "model" THEN "vto-modelImage"
                ELSE "vto-garmentImage"})
    /\ UNCHANGED <<history, customPrompt, appVars, inflight, storageFails, now,
                   viewerVars>>

\* ImageUploader.tsx:55-57 and 69-71: ingestion i rejects (the file does not
\* decode) and processFile logs the error
IngestReject(i) ==
    /\ i \in 1..Len(ingesting)
    /\ ~ingesting[i][2].decodable
    /\ ingesting' = RemoveAt(ingesting, i)
    /\ UNCHANGED <<sessionVars, appVars, inflight, storageFails, now,
                   viewerVars>>

\* part_000:1, type AspectRatio
AspectRatios == {"portrait", "square", "landscape"}

\* ImageUploader.tsx:95-99 with App.tsx:86-87: one of the three aspect ratio
\* buttons of a slot, rendered while the slot holds an image
\* (ImageUploader.tsx:148-170)
handleAspectRatioChange(slot, newRatio) ==
    /\ IF slot = "model" THEN modelImage # null ELSE garmentImage # null
    /\ modelImage' =
         (IF slot = "model"
          THEN UploadedImage([modelImage EXCEPT !.aspectRatio = newRatio],
                             modelImage)
          ELSE modelImage)
    /\ garmentImage' =
         (IF slot = "garment"
          THEN UploadedImage([garmentImage EXCEPT !.aspectRatio = newRatio],
                             garmentImage)
          ELSE garmentImage)
    /\ Persist({IF slot = "model" THEN "vto-modelImage" ELSE "vto-garmentImage"})
    /\ UNCHANGED <<history, customPrompt, appVars, asyncVars, now, viewerVars>>

\* App.tsx:89-90 with ImageUploader.tsx:101-105 and 141-147: the clear button
\* of a slot, rendered while the slot holds an image
handleClearSlot(slot) ==
    /\ IF slot = "model" THEN modelImage # null ELSE garmentImage # null
    /\ modelImage' = (IF slot = "model" THEN null ELSE modelImage)
    /\ garmentImage' = (IF slot = "garment" THEN null ELSE garmentImage)
    /\ Persist({IF slot = "model" THEN "vto-modelImage" ELSE "vto-garmentImage"})
    /\ UNCHANGED <<history, customPrompt, appVars, asyncVars, now, viewerVars>>

(***************************************************************************)
(* The viewer (ResultDisplay.tsx).  The pointer is at a point of Points.   *)
(***************************************************************************)
Points == [x : 0..MaxCoord, y : 0..MaxCoord]

\* ResultDisplay.tsx:161 and 201, the modal is part of the image branch
ModalRendered == renderContent = "image" /\ isModalOpen

\* ResultDisplay.tsx:60-64, a click or Enter/Space on the result image
\* (ResultDisplay.tsx:164-171), which the image branch renders
openModal ==
    /\ renderContent = "image"
    /\ generatedImage # null
    /\ isModalOpen' = TRUE
    /\ UNCHANGED <<sessionVars, appVars, asyncVars, now, zoom, position,
                   isDragging, dragStart, resetTimers>>

\* ResultDisplay.tsx:66-74: the close button and the backdrop of the modal
\* (ResultDisplay.tsx:204, 221) and the Escape listener, attached while
\* isModalOpen (ResultDisplay.tsx:76-88)
closeModal ==
    /\ isModalOpen
    /\ resetTimers < MaxTimers
    /\ isModalOpen' = FALSE
    /\ resetTimers' = resetTimers + 1
    /\ UNCHANGED <<sessionVars, appVars, asyncVars, now, zoom, position,
                   isDragging, dragStart>>

\* ResultDisplay.tsx:69-73, the callback closeModal scheduled 200 ms before
resetTimeout ==
    /\ resetTimers > 0
    /\ zoom' = MIN_ZOOM
    /\ position' = origin
    /\ isDragging' = FALSE
    /\ resetTimers' = resetTimers - 1
    /\ UNCHANGED <<sessionVars, appVars, asyncVars, now, isModalOpen, dragStart>>

\* ResultDisplay.tsx:90, button disabled at zoom >= MAX_ZOOM (:229)
handleZoomIn ==
    /\ ModalRendered
    /\ zoom < MAX_ZOOM
    /\ zoom' = Min(zoom + ZOOM_STEP, MAX_ZOOM)
    /\ UNCHANGED <<sessionVars, appVars, asyncVars, now, isModalOpen, position,
                   isDragging, dragStart, resetTimers>>

\* ResultDisplay.tsx:91, button disabled at zoom <= MIN_ZOOM (:225)
handleZoomOut ==
    /\ ModalRendered
    /\ zoom > MIN_ZOOM
    /\ zoom' = Max(zoom - ZOOM_STEP, MIN_ZOOM)
    /\ UNCHANGED <<sessionVars, appVars, asyncVars, now, isModalOpen, position,
                   isDragging, dragStart, resetTimers>>

\* ResultDisplay.tsx:92-95, button disabled in the identity view (:233)
handleResetZoom ==
    /\ ModalRendered
    /\ ~(zoom = MIN_ZOOM /\ position = origin)
    /\ zoom' = MIN_ZOOM
    /\ position' = origin
    /\ UNCHANGED <<sessionVars, appVars, asyncVars, now, isModalOpen,
                   isDragging, dragStart, resetTimers>>

\* Mutant: the wheel handler forgets the clamp.
handleWheel_NoClamp(down) ==
    /\ ModalRendered
    /\ zoom' = (IF down THEN zoom - WHEEL_STEP ELSE zoom + WHEEL_STEP)
    /\ UNCHANGED <<sessionVars, appVars, asyncVars, now, isModalOpen, position,
                   isDragging, dragStart, resetTimers>>

\* ResultDisplay.tsx:97-101; down is e.deltaY > 0
handleWheel(down) ==
    /\ ModalRendered
    /\ zoom' = Max(MIN_ZOOM,
                   Min(IF down THEN zoom - WHEEL_STEP ELSE zoom + WHEEL_STEP,
                       MAX_ZOOM))
    /\ UNCHANGED <<sessionVars, appVars, asyncVars, now, isModalOpen, position,
                   isDragging, dragStart, resetTimers>>

\* ResultDisplay.tsx:103-108; p is (e.clientX, e.clientY)
handleMouseDown(p) ==
    /\ ModalRendered
    /\ ~(zoom <= MIN_ZOOM)
    /\ isDragging' = TRUE
    /\ dragStart' = [x |-> p.x - position.x, y |-> p.y - position.y]
    /\ UNCHANGED <<sessionVars, appVars, asyncVars, now, isModalOpen, zoom,
                   position, resetTimers>>

\* ResultDisplay.tsx:110-114
handleMouseMove(p) ==
    /\ ModalRendered
    /\ isDragging
    /\ p.x - dragStart.x \in -MaxPan..MaxPan
    /\ p.y - dragStart.y \in -MaxPan..MaxPan
    /\ position' = [x |-> p.x - dragStart.x, y |-> p.y - dragStart.y]
    /\ UNCHANGED <<sessionVars, appVars, asyncVars, now, isModalOpen, zoom,
                   isDragging, dragStart, resetTimers>>

\* ResultDisplay.tsx:116
handleMouseUpOrLeave ==
    /\ ModalRendered
    /\ isDragging
    /\ isDragging' = FALSE
    /\ UNCHANGED <<sessionVars, appVars, asyncVars, now, isModalOpen, zoom,
                   position, dragStart, resetTimers>>

\* The page is reloaded: App and ResultDisplay mount again.  Each hook reads
\* its initial state from the store (useLocalStorageState.ts:5-17) and its
\* effect writes that state back (useLocalStorageState.ts:20-31); the other
\* state starts from its initial value (App.tsx:16-19,
\* ResultDisplay.tsx:27-33) and the pending promises and timers of the old
\* page are gone.
Reload ==
    /\ modelImage' = LoadFrom(store, storageFails, "vto-modelImage", null)
    /\ garmentImage' = LoadFrom(store, storageFails, "vto-garmentImage", null)
    /\ history' = LoadFrom(store, storageFails, "vto-history", <<>>)
    /\ customPrompt' = LoadFrom(store, storageFails, "vto-customPrompt", "")
    /\ generatedImage' = null
    /\ isLoading' = FALSE
    /\ error' = NoError
    /\ isAdvancedOpen' = FALSE
    /\ inflight' = 0
    /\ ingesting' = <<>>
    /\ isModalOpen' = FALSE
    /\ zoom' = MIN_ZOOM
    /\ position' = origin
    /\ isDragging' = FALSE
    /\ dragStart' = origin
    /\ resetTimers' = 0
    /\ Persist(Keys)
    /\ UNCHANGED <<now, storageFails>>

(***************************************************************************)
(* Initial state: first mount with an empty localStorage (App.tsx:11-19,   *)
(* ResultDisplay.tsx:27-33).                                               *)
(***************************************************************************)
ViewerInit ==
    /\ isModalOpen = FALSE
    /\ zoom = MIN_ZOOM
    /\ position = origin
    /\ isDragging = FALSE
    /\ dragStart = origin
    /\ resetTimers = 0

Init ==
    /\ modelImage = null
    /\ garmentImage = null
    /\ history = <<>>
    /\ customPrompt = ""
    /\ generatedImage = null
    /\ isLoading = FALSE
    /\ error = NoError
    /\ isAdvancedOpen = FALSE
    /\ inflight = 0
    /\ ingesting = <<>>
    /\ now = 1
    /\ storageFails = FALSE
    /\ store = Mirror
    /\ ViewerInit
    /\ requests = <<>>
    /\ lastEvent = [op |-> "Mount"]

(***************************************************************************)
(* Observers: what a step writes to the history variables.                 *)
(***************************************************************************)
Did(op) ==
    /\ lastEvent' = [op |-> op]
    /\ UNCHANGED requests

\* handleGenerate either started a call or rejected the request.
ObserveGenerate ==
    IF inflight' > inflight
    THEN /\ requests' = Append(requests,
                [preActive |-> generatedImage, preHistory |-> history])
         /\ lastEvent' = [op |-> "GenerateStart"]
    ELSE Did("GenerateRejected")

\* One of the pending calls resolved.
ObserveResolved(op) ==
    \E i \in 1..Len(requests) :
        /\ requests' = RemoveAt(requests, i)
        /\ lastEvent' = [op |-> op]

\* A step of the viewer, with the view it started from.
DidFrom(op) ==
    /\ lastEvent' = [op |-> op, zoom |-> zoom, position |-> position]
    /\ UNCHANGED requests

\* An insertion into the history, with the entry it dropped.
ObserveInsert ==
    /\ lastEvent' = [op |-> "GenerateSucceed",
                     evicted |-> IF Len(history) = HISTORY_LIMIT
                                 THEN history[HISTORY_LIMIT] ELSE null]
    /\ UNCHANGED requests

(***************************************************************************)
(* Spec, the generation specification: uploads, slot clears, generation    *)
(* requests and their outcomes, Clear All, history clear and select, from  *)
(* the first mount.  Date.now() does not advance and no favorite is        *)
(* toggled; the viewer stays closed.                                       *)
(***************************************************************************)
Next ==
    \/ GenerateClick /\ ObserveGenerate
    \/ RetryClick /\ ObserveGenerate
    \/ \E r \in Responses : GenerateSucceed(r) /\ ObserveResolved("GenerateSucceed")
    \/ \E r \in Responses : GenerateFail(r) /\ ObserveResolved("GenerateFail")
    \/ handleClearHistory /\ Did("Other")
    \/ handleClear /\ Did("Other")
    \/ \E k \in 1..Len(history) : handleHistorySelect(k) /\ Did("Other")
    \/ \E s \in Slots, f \in Files : StartIngest(s, f) /\ Did("Other")
    \/ \E i \in 1..Len(ingesting) : IngestResolve(i) /\ Did("Other")
    \/ \E s \in Slots : handleClearSlot(s) /\ Did("Other")

Spec == Init /\ [][Next]_vars

(***************************************************************************)
(* SpecHistory, the history specification: generation requests and their   *)
(* outcomes, favorite toggles, history select and clear, Clear All, with   *)
(* Date.now() advancing.  It starts with both slots filled and any number  *)
(* of calls pending (states Spec reaches); the viewer stays closed.        *)
(***************************************************************************)
SlotImage == UploadedImage(resizeAndProcessImage(CHOOSE f \in Files : TRUE), null)

InitHistory ==
    /\ now = 1
    /\ modelImage = SlotImage
    /\ garmentImage = SlotImage
    /\ history = <<>>
    /\ customPrompt = ""
    /\ generatedImage = null
    /\ inflight \in 0..MaxInFlight
    /\ isLoading = (inflight > 0)
    /\ error = NoError
    /\ isAdvancedOpen = FALSE
    /\ ingesting = <<>>
    /\ storageFails = FALSE
    /\ store = Mirror
    /\ ViewerInit
    /\ requests = <<>>
    /\ lastEvent = [op |-> "Mount"]

\* A toggle, with the id it was called with.
ObserveToggle(id) ==
    /\ lastEvent' = [op |-> "ToggleFavorite", id |-> id]
    /\ UNCHANGED requests

\* Ids no history entry has (Date.now() is at least 1), with which the
\* contract of handleToggleFavorite for an id that is not present is
\* exercised; the star buttons only pass ids of entries.
AbsentIds == {0}

NextHistory ==
    \/ Tick /\ Did("Tick")
    \/ GenerateClick /\ Did("Generate")
    \/ RetryClick /\ Did("Generate")
    \/ \E r \in Responses : GenerateSucceed(r) /\ ObserveInsert
    \/ \E r \in Responses : GenerateFail(r) /\ Did("GenerateFail")
    \/ handleClearHistory /\ Did("ClearHistory")
    \/ handleClear /\ Did("Clear")
    \/ \E id \in { history[k].id : k \in 1..Len(history) } :
          handleToggleFavorite(id) /\ ObserveToggle(id)
    \/ (\E id \in AbsentIds :
           handleToggleFavorite(id) /\ ObserveToggle(id))
    \/ \E k \in 1..Len(history) : handleHistorySelect(k) /\ Did("HistorySelect")

SpecHistory == InitHistory /\ [][NextHistory]_vars

(***************************************************************************)
(* SpecDisplay, the display order specification: successful generations of *)
(* two different images and favorite toggles, with Date.now() advancing,   *)
(* from the initial state of SpecHistory that has no call pending.         *)
(***************************************************************************)
\* The service returns one of two images.
DisplayResponses ==
    { [kind |-> "image", data |-> d, mimeType |-> "image/png"] : d \in {"R", "S"} }

NextDisplay ==
    \/ Tick /\ Did("Tick")
    \/ GenerateClick /\ Did("Generate")
    \/ \E r \in DisplayResponses : GenerateSucceed(r) /\ Did("GenerateSucceed")
    \/ \E id \in { history[k].id : k \in 1..Len(history) } :
          handleToggleFavorite(id) /\ Did("ToggleFavorite")

InitDisplay == InitHistory /\ inflight = 0

SpecDisplay == InitDisplay /\ [][NextDisplay]_vars

(***************************************************************************)
(* SpecViewer, the viewer specification: every event of the viewer, from   *)
(* the state after the first successful generation.                        *)
(***************************************************************************)
FirstImage ==
    [id |-> 1, data |-> "R", mimeType |-> "image/png",
     aspectRatio |-> "portrait", isFavorite |-> FALSE]

InitViewer ==
    /\ now = 1
    /\ modelImage = SlotImage
    /\ garmentImage = SlotImage
    /\ history = <<FirstImage>>
    /\ customPrompt = ""
    /\ generatedImage = FirstImage
    /\ inflight = 0
    /\ isLoading = FALSE
    /\ error = NoError
    /\ isAdvancedOpen = FALSE
    /\ ingesting = <<>>
    /\ storageFails = FALSE
    /\ store = Mirror
    /\ ViewerInit
    /\ requests = <<>>
    /\ lastEvent = [op |-> "GenerateSucceed"]

NextViewer ==
    \/ openModal /\ Did("openModal")
    \/ closeModal /\ Did("closeModal")
    \/ resetTimeout /\ DidFrom("resetTimeout")
    \/ handleZoomIn /\ DidFrom("ZoomIn")
    \/ handleZoomOut /\ DidFrom("ZoomOut")
    \/ handleResetZoom /\ DidFrom("ResetZoom")
    \/ \E down \in BOOLEAN : handleWheel(down) /\ DidFrom("Wheel")
    \/ \E p \in Points : handleMouseDown(p) /\ Did("MouseDown")
    \/ \E p \in Points : handleMouseMove(p) /\ Did("MouseMove")
    \/ handleMouseUpOrLeave /\ Did("MouseUp")

SpecViewer == InitViewer /\ [][NextViewer]_vars

(***************************************************************************)
(* SpecApp, the specification of App with its viewer: uploads, generation  *)
(* requests and their outcomes, the advanced panel and its prompt, history *)
(* select and clear, Clear All, and the viewer's open, close, deferred     *)
(* reset and zoom buttons, from the first mount.                           *)
(***************************************************************************)
Prompts == {"", "on a beach at sunset"}

NextApp ==
    \/ \E s \in Slots, f \in Files : StartIngest(s, f) /\ Did("StartIngest")
    \/ \E i \in 1..Len(ingesting) : IngestResolve(i) /\ Did("IngestResolve")
    \/ GenerateClick /\ Did("Generate")
    \/ RetryClick /\ Did("Generate")
    \/ \E r \in Responses : GenerateSucceed(r) /\ Did("GenerateSucceed")
    \/ \E r \in Responses : GenerateFail(r) /\ Did("GenerateFail")
    \/ handleClearHistory /\ Did("ClearHistory")
    \/ handleClear /\ Did("Clear")
    \/ \E k \in 1..Len(history) : handleHistorySelect(k) /\ Did("HistorySelect")
    \/ toggleAdvanced /\ Did("toggleAdvanced")
    \/ \E text \in Prompts : setCustomPrompt(text) /\ Did("setCustomPrompt")
    \/ openModal /\ Did("openModal")
    \/ closeModal /\ Did("closeModal")
    \/ resetTimeout /\ Did("resetTimeout")
    \/ handleZoomIn /\ Did("ZoomIn")
    \/ handleZoomOut /\ Did("ZoomOut")

SpecApp == Init /\ [][NextApp]_vars

(***************************************************************************)
(* SpecPersist, the persistence specification with a working store: the    *)
(* page mounts on what an earlier session or another writer left in the    *)
(* store, then uploads, slot clears, successful generations, favorite      *)
(* toggles, history clear, Clear All, the custom prompt and reloads.       *)
(***************************************************************************)
\* What an earlier session of the application left in the store.
PreviousSession ==
    [k \in Keys |->
        StoredItem(k, CASE k = "vto-modelImage" ->
                             [resizeAndProcessImage(CHOOSE f \in Files : TRUE)
                                EXCEPT !.id = 1]
                        [] k = "vto-garmentImage" -> null
                        [] k = "vto-history" -> <<FirstImage>>
                        [] k = "vto-customPrompt" -> "on a beach at sunset")]

\* The contents the store may have when the page mounts.
Disks == [Keys -> {Missing, Malformed}] \cup {PreviousSession}

\* App.tsx:10-19 with useLocalStorageState.ts:5-31: the state after the mount
\* on the store contents disk
MountFrom(disk, fails) ==
    /\ now = 1
    /\ storageFails = fails
    /\ modelImage = LoadFrom(disk, fails, "vto-modelImage", null)
    /\ garmentImage = LoadFrom(disk, fails, "vto-garmentImage", null)
    /\ history = LoadFrom(disk, fails, "vto-history", <<>>)
    /\ customPrompt = LoadFrom(disk, fails, "vto-customPrompt", "")
    /\ generatedImage = null
    /\ isLoading = FALSE
    /\ error = NoError
    /\ isAdvancedOpen = FALSE
    /\ inflight = 0
    /\ ingesting = <<>>
    /\ store = (IF fails THEN disk ELSE Mirror)
    /\ ViewerInit

InitPersist ==
    /\ \E disk \in Disks : MountFrom(disk, FALSE)
    /\ requests = <<>>
    /\ lastEvent = [op |-> "Mount"]

NextPersist ==
    \/ Reload /\ Did("Reload")
    \/ \E s \in Slots, f \in Files : StartIngest(s, f) /\ Did("Other")
    \/ \E i \in 1..Len(ingesting) : IngestResolve(i) /\ Did("Other")
    \/ \E s \in Slots : handleClearSlot(s) /\ Did("ClearSlot")
    \/ GenerateClick /\ Did("Other")
    \/ \E r \in Responses : GenerateSucceed(r) /\ Did("Other")
    \/ handleClearHistory /\ Did("Other")
    \/ handleClear /\ Did("Other")
    \/ \E id \in { history[k].id : k \in 1..Len(history) } :
          handleToggleFavorite(id) /\ Did("Other")
    \/ toggleAdvanced /\ Did("Other")
    \/ \E text \in Prompts : setCustomPrompt(text) /\ Did("Other")

SpecPersist == InitPersist /\ [][NextPersist]_vars

(***************************************************************************)
(* SpecStorage, the persistence specification with a store whose           *)
(* operations may throw: as SpecPersist, with the store starting and       *)
(* stopping to throw at any time, and without generation requests and      *)
(* favorite toggles.                                                       *)
(***************************************************************************)
\* A mount, with the keys whose items were malformed and whether the store
\* was throwing.
ObserveReload ==
    /\ lastEvent' = [op |-> "Reload",
                     malformed |-> { k \in Keys : store[k] = Malformed },
                     missing |-> { k \in Keys : store[k] = Missing },
                     failed |-> storageFails]
    /\ UNCHANGED requests

InitStorage ==
    /\ \E disk \in Disks, fails \in BOOLEAN : MountFrom(disk, fails)
    /\ requests = <<>>
    /\ lastEvent = [op |-> "Mount"]

NextStorage ==
    \/ Reload /\ ObserveReload
    \/ StorageChange /\ Did("StorageChange")
    \/ \E s \in Slots, f \in Files : StartIngest(s, f) /\ Did("StartIngest")
    \/ \E i \in 1..Len(ingesting) : IngestResolve(i) /\ Did("IngestResolve")
    \/ \E s \in Slots : handleClearSlot(s) /\ Did("ClearSlot")
    \/ handleClearHistory /\ Did("ClearHistory")
    \/ handleClear /\ Did("Clear")
    \/ toggleAdvanced /\ Did("toggleAdvanced")
    \/ \E text \in Prompts : setCustomPrompt(text) /\ Did("setCustomPrompt")

SpecStorage == InitStorage /\ [][NextStorage]_vars

(***************************************************************************)
(* SpecIngest, the ingestion specification: files of many sizes, and one   *)
(* that does not decode, are picked for both slots, from the state after   *)
(* the first successful generation.                                        *)
(***************************************************************************)
\* <<width, height>> of the rasters the user picks.
IngestSizes ==
    { <<2000, 1000>>, <<500, 500>>, <<1150, 1000>>, <<950, 1000>>,
      <<850, 1000>>, <<11004, 10000>>, <<1000, 2000>>, <<2048, 3>>,
      <<5000, 1>>, <<1, 1>>, <<1025, 1025>> }

IngestFiles ==
    { [data |-> "A", width |-> sz[1], height |-> sz[2], decodable |-> TRUE] :
        sz \in IngestSizes }
    \cup { [data |-> "X", width |-> 0, height |-> 0, decodable |-> FALSE] }

\* An ingestion settled, with its slot and its file.
ObserveIngest(op, i) ==
    /\ lastEvent' = [op |-> op, slot |-> ingesting[i][1],
                     file |-> ingesting[i][2]]
    /\ UNCHANGED requests

InitIngest == InitViewer

NextIngest ==
    \/ \E s \in Slots, f \in IngestFiles :
          StartIngest(s, f) /\ Did("StartIngest")
    \/ \E i \in 1..Len(ingesting) :
          IngestResolve(i) /\ ObserveIngest("IngestResolve", i)
    \/ \E i \in 1..Len(ingesting) :
          IngestReject(i) /\ ObserveIngest("IngestReject", i)
    \/ \E s \in Slots : handleClearSlot(s) /\ Did("ClearSlot")

SpecIngest == InitIngest /\ [][NextIngest]_vars

(***************************************************************************)
(* SpecReplace, the slot specification: two files with different rasters   *)
(* are picked for both slots, the aspect ratio of a slot is chosen by hand *)
(* and slots are cleared, with Date.now() advancing, from the state after  *)
(* the first successful generation.                                        *)
(***************************************************************************)
ReplaceFiles ==
    { [data |-> "A", width |-> 2000, height |-> 1000, decodable |-> TRUE],
      [data |-> "B", width |-> 500, height |-> 500, decodable |-> TRUE] }

NextReplace ==
    \/ Tick /\ Did("Tick")
    \/ \E s \in Slots, f \in ReplaceFiles :
          StartIngest(s, f) /\ Did("StartIngest")
    \/ \E i \in 1..Len(ingesting) :
          IngestResolve(i) /\ ObserveIngest("IngestResolve", i)
    \/ \E s \in Slots : handleClearSlot(s) /\ Did("ClearSlot")
    \/ \E s \in Slots, r \in AspectRatios :
          handleAspectRatioChange(s, r) /\ Did("AspectRatioChange")

SpecReplace == InitViewer /\ [][NextReplace]_vars

(***************************************************************************)
(* SpecLive, the progress specification: uploads, generation requests and  *)
(* their outcomes and Clear All, from the first mount.  The promise of a   *)
(* pending collaborator call settles: the service resolves or rejects, and *)
(* the browser then runs the continuation of handleGenerate, which no      *)
(* other task can disable.  No other event has to happen.                  *)
(***************************************************************************)
\* handleGenerate either started a call or rejected the request.
ObserveStart ==
    Did(IF inflight' > inflight THEN "GenerateStart" ELSE "GenerateRejected")

\* A pending call settles.
Settle ==
    \/ \E r \in Responses : GenerateSucceed(r) /\ Did("GenerateSucceed")
    \/ \E r \in Responses : GenerateFail(r) /\ Did("GenerateFail")

NextLive ==
    \/ GenerateClick /\ ObserveStart
    \/ RetryClick /\ ObserveStart
    \/ Settle
    \/ handleClear /\ Did("Clear")
    \/ \E s \in Slots, f \in Files : StartIngest(s, f) /\ Did("Other")
    \/ \E i \in 1..Len(ingesting) : IngestResolve(i) /\ Did("Other")

SpecLive == Init /\ [][NextLive]_vars /\ WF_vars(Settle)

(***************************************************************************)
(* Properties.                                                             *)
(***************************************************************************)
ServiceErrors == { ServiceError(r) : r \in { q \in Responses : q.kind # "image" } }

C2_AtMostOneInFlight == inflight <= 1

\* C3: in every reachable state the history holds at most 5 entries.
C3_HistoryBounded == Len(history) <= HISTORY_LIMIT

\* An insertion into a full history has happened.
C3_Witness ==
    /\ lastEvent.op = "GenerateSucceed"
    /\ lastEvent.evicted # null
    /\ Len(history) = HISTORY_LIMIT

\* C4: an insertion yields the new image followed by the first 4 entries of
\* the history in their stored order; the entry dropped from a full history
\* is the last stored one, favorite or not.
C4_FrontInsertTailEvict ==
    [][lastEvent'.op = "GenerateSucceed" =>
         /\ Len(history') = Min(Len(history) + 1, HISTORY_LIMIT)
         /\ history'[1].id = now
         /\ history'[1].isFavorite = FALSE
         /\ \A k \in 2..Len(history') : history'[k] = history[k - 1]
         /\ Len(history) = HISTORY_LIMIT =>
               /\ Len(history') = HISTORY_LIMIT
               /\ \A k \in 1..(HISTORY_LIMIT - 1) : history'[k + 1] = history[k]]_vars

\* A favorite was dropped from the tail while a non-favorite stayed.
C4_Witness ==
    /\ lastEvent.op = "GenerateSucceed"
    /\ lastEvent.evicted # null
    /\ lastEvent.evicted.isFavorite
    /\ \E k \in 2..Len(history) : ~history[k].isFavorite

\* C5: when a generation request succeeds, activeResult and history[0] are
\* the same newly created image, portrait and not favorite, and the loading
\* flag is cleared.
C5_SuccessSetsActiveAndHead ==
    [][lastEvent'.op = "GenerateSucceed" =>
         /\ generatedImage' # null
         /\ Len(history') >= 1
         /\ history'[1] = generatedImage'
         /\ generatedImage'.id = now
         /\ generatedImage'.data \in { r.data : r \in { q \in Responses : q.kind = "image" } }
         /\ generatedImage'.aspectRatio = "portrait"
         /\ generatedImage'.isFavorite = FALSE
         /\ isLoading' = FALSE]_vars

\* A request has succeeded.
C5_Witness ==
    /\ lastEvent.op = "GenerateSucceed"
    /\ Len(history) >= 1
    /\ generatedImage = history[1]
    /\ ~isLoading

\* C6: the collaborator is called only with both slots occupied; a request
\* with an empty slot sets the error state and changes neither activeResult,
\* history nor the loading flag.
C6_GenerateValidatesSlots ==
    [][/\ inflight' > inflight => modelImage # null /\ garmentImage # null
       /\ (/\ lastEvent'.op \in {"GenerateStart", "GenerateRejected"}
           /\ (modelImage = null \/ garmentImage = null)) =>
             /\ inflight' = inflight
             /\ error' # NoError
             /\ generatedImage' = generatedImage
             /\ history' = history
             /\ isLoading' = isLoading]_vars

\* A request was made with an empty slot.
C6_Witness ==
    /\ lastEvent.op = "GenerateRejected"
    /\ modelImage = null \/ garmentImage = null
    /\ error = "Please upload both a person and a garment image."

\* C7 as stated: Clear All resets, in one step, every session field and
\* every ephemeral UI flag, the viewer's open, zoom, pan and dragging state
\* included.
C7_ClearResetsEverything ==
    [][lastEvent'.op = "Clear" =>
         /\ modelImage' = null
         /\ garmentImage' = null
         /\ history' = <<>>
         /\ generatedImage' = null
         /\ customPrompt' = ""
         /\ error' = NoError
         /\ isLoading' = FALSE
         /\ isAdvancedOpen' = FALSE
         /\ isModalOpen' = FALSE
         /\ zoom' = MIN_ZOOM
         /\ position' = origin
         /\ isDragging' = FALSE]_vars

\* C8 as stated: in every reachable viewer state, zoom = 1.0 implies
\* pan = origin.
C8_ZoomOneImpliesPanOrigin == zoom = MIN_ZOOM => position = origin

\* C9: in every reachable viewer state, 1.0 <= zoom <= 5.0.
C9_ZoomClamped == MIN_ZOOM <= zoom /\ zoom <= MAX_ZOOM

\* A wheel gesture at the maximum zoom was clamped.
C9_Witness ==
    /\ lastEvent.op = "Wheel"
    /\ lastEvent.zoom = MAX_ZOOM
    /\ zoom = MAX_ZOOM
    /\ isModalOpen

\* C10 as stated: every open transition from Closed with an image present
\* enters Open with zoom = 1.0, pan = origin and dragging = false.
C10_OpenEntersIdentityView ==
    [][(lastEvent'.op = "openModal" /\ ~isModalOpen /\ isModalOpen') =>
         /\ zoom' = MIN_ZOOM
         /\ position' = origin
         /\ isDragging' = FALSE]_vars

\* C11: with a store that does not fail, after every step the store mirrors
\* the model slot, the garment slot, the history and the custom prompt: a
\* load of each key yields the value in memory, and a reload rehydrates
\* exactly the four values the session had before it.
C11_StoreMirrorsSession ==
    [][/\ \A k \in Keys :
            (LoadFrom(store, FALSE, k, DefaultOf(k)))' = Field(k)'
       /\ lastEvent'.op = "Reload" => \A k \in Keys : Field(k)' = Field(k)]_vars

\* A reload rehydrated a session with a model image and two results.
C11_Witness ==
    /\ lastEvent.op = "Reload"
    /\ modelImage # null
    /\ Len(history) >= 2
    /\ store["vto-history"] # Missing

\* C12: a slot that is null and a history of length zero leave no item
\* under their key, and a load of that key returns the default.
C12_EmptyRemovesKey ==
    \A k \in Keys \ {"vto-customPrompt"} :
        StoredItem(k, DefaultOf(k)) = Missing
        /\ (Field(k) = DefaultOf(k) =>
              /\ store[k] = Missing
              /\ LoadFrom(store, FALSE, k, DefaultOf(k)) = DefaultOf(k))

\* The filled model slot was cleared while the garment slot and the
\* history keep their items.
C12_Witness ==
    /\ lastEvent.op = "ClearSlot"
    /\ modelImage = null
    /\ store["vto-modelImage"] = Missing
    /\ garmentImage # null
    /\ store["vto-garmentImage"] # Missing
    /\ store["vto-history"] # Missing

\* Defaults a caller may give for a key.
AnyDefaults(key) ==
    CASE key \in {"vto-modelImage", "vto-garmentImage"} -> {null, FirstImage}
      [] key = "vto-history" -> {<<>>, <<FirstImage>>}
      [] key = "vto-customPrompt" -> {"", "default"}

\* C13: for every value of the session that is neither null nor an empty
\* sequence, persisting it under its key and then loading that key, with
\* any default, yields an equal value.
C13_StoreRoundTrip ==
    \A k \in Keys :
        (k = "vto-customPrompt" \/ Field(k) # DefaultOf(k)) =>
            \A d \in AnyDefaults(k) :
                LoadFrom([store EXCEPT ![k] = StoredItem(k, Field(k))],
                         FALSE, k, d) = Field(k)

\* A history with a favorite and a non-favorite entry, a slot image and a
\* custom prompt went through the store.
C13_Witness ==
    /\ lastEvent.op = "Reload"
    /\ \E i, j \in 1..Len(history) :
          history[i].isFavorite /\ ~history[j].isFavorite
    /\ garmentImage # null
    /\ customPrompt # ""

\* C14: when the page mounts, every key that is missing, holds malformed
\* data or cannot be read gives its default as the value in memory, and no
\* error is raised.
C14_LoadFallsBackToDefault ==
    [][lastEvent'.op = "Reload" =>
         /\ \A k \in Keys :
               (store[k] = Missing \/ store[k] = Malformed \/ storageFails) =>
                   Field(k)' = DefaultOf(k)
         /\ error' = NoError]_vars

\* The page mounted on a readable store with a malformed history and prompt.
C14_Witness ==
    /\ lastEvent.op = "Reload"
    /\ ~lastEvent.failed
    /\ {"vto-history", "vto-customPrompt"} \subseteq lastEvent.malformed
    /\ history = <<>>
    /\ customPrompt = ""

\* C15: while the store throws, a mutation of the session takes effect in
\* memory, raises no error and leaves every stored item as it was.
C15_FailedWriteKeepsMemoryAndStore ==
    [][(storageFails /\ lastEvent'.op \in
            {"IngestResolve", "ClearSlot", "ClearHistory", "Clear",
             "setCustomPrompt"}) =>
         /\ store' = store
         /\ error' = (IF lastEvent'.op = "Clear" THEN NoError ELSE error)
         /\ lastEvent'.op = "IngestResolve" =>
               /\ Len(ingesting') = Len(ingesting) - 1
               /\ \E i \in 1..Len(ingesting), k \in Keys :
                     /\ k = (IF ingesting[i][1] = "model" THEN "vto-modelImage"
                             ELSE "vto-garmentImage")
                     /\ Field(k)' # null
         /\ lastEvent'.op = "ClearSlot" =>
               \E k \in {"vto-modelImage", "vto-garmentImage"} :
                   Field(k) # null /\ Field(k)' = null
         /\ lastEvent'.op = "ClearHistory" =>
               Len(history) > 0 /\ history' = <<>>
         /\ lastEvent'.op = "Clear" =>
               \A k \in Keys : Field(k)' = DefaultOf(k)
         /\ lastEvent'.op = "setCustomPrompt" =>
               customPrompt' # customPrompt /\ customPrompt' \in Prompts]_vars

\* The history was cleared while the store was throwing: memory is empty and
\* the stored history is still there.
C15_Witness ==
    /\ lastEvent.op = "ClearHistory"
    /\ storageFails
    /\ history = <<>>
    /\ store["vto-history"] # Missing
    /\ store["vto-history"] # Malformed

\* The image the slot of the last settled ingestion holds.
IngestedImage ==
    IF lastEvent.slot = "model" THEN modelImage ELSE garmentImage

\* C16: the raster an ingestion stores is at most 1024 wide and high and no
\* larger than the file's raster; when the file's longer edge exceeds 1024
\* the longer edge is exactly 1024 and the shorter one is within one half of
\* the proportionally scaled value, otherwise the size is unchanged.
C16_OutputSizeConstrained ==
    [][lastEvent'.op = "IngestResolve" =>
         LET w == lastEvent'.file.width
             h == lastEvent'.file.height
             ow == IngestedImage'.data.width
             oh == IngestedImage'.data.height
         IN  /\ ow <= MAX_DIMENSION /\ oh <= MAX_DIMENSION
             /\ ow <= w /\ oh <= h
             /\ (w <= MAX_DIMENSION /\ h <= MAX_DIMENSION) =>
                   ow = w /\ oh = h
             /\ ((w > MAX_DIMENSION \/ h > MAX_DIMENSION) /\ w >= h) =>
                   /\ ow = MAX_DIMENSION
                   /\ 2 * (oh * w - h * MAX_DIMENSION) <= w
                   /\ 2 * (h * MAX_DIMENSION - oh * w) <= w
             /\ ((w > MAX_DIMENSION \/ h > MAX_DIMENSION) /\ h >= w) =>
                   /\ oh = MAX_DIMENSION
                   /\ 2 * (ow * h - w * MAX_DIMENSION) <= h
                   /\ 2 * (w * MAX_DIMENSION - ow * h) <= h]_vars

\* A 2000x1000 file was stored as 1024x512.
C16_Witness ==
    /\ lastEvent.op = "IngestResolve"
    /\ lastEvent.file.width = 2000 /\ lastEvent.file.height = 1000
    /\ IngestedImage.data.width = 1024 /\ IngestedImage.data.height = 512

\* C17: the aspect class an ingestion stores is landscape when the stored
\* width / height > 1.1, portrait when it is < 0.9 and square otherwise.
C17_AspectFromFinalSize ==
    [][lastEvent'.op = "IngestResolve" =>
         LET ow == IngestedImage'.data.width
             oh == IngestedImage'.data.height
         IN  IngestedImage'.aspectRatio =
                 (IF 10 * ow > 11 * oh THEN "landscape"
                  ELSE IF 10 * ow < 9 * oh THEN "portrait"
                  ELSE "square")]_vars

\* A 11004x10000 file (ratio above 1.1) was stored as 1024x931 (ratio below
\* 1.1) and classed square.
C17_Witness ==
    /\ lastEvent.op = "IngestResolve"
    /\ lastEvent.file.width = 11004 /\ lastEvent.file.height = 10000
    /\ IngestedImage.data.width = 1024 /\ IngestedImage.data.height = 931
    /\ IngestedImage.aspectRatio = "square"

\* C20: when the ingestion of a file fails to decode, the slot it was picked
\* for, the other slot, the history and activeResult are unchanged, and so
\* are the stored items and the error state.
C20_DecodeFailureCommitsNothing ==
    [][lastEvent'.op = "IngestReject" =>
         /\ modelImage' = modelImage
         /\ garmentImage' = garmentImage
         /\ history' = history
         /\ generatedImage' = generatedImage
         /\ store' = store
         /\ error' = error]_vars

\* A file picked for the filled model slot failed to decode.
C20_Witness ==
    /\ lastEvent.op = "IngestReject"
    /\ lastEvent.slot = "model"
    /\ ~lastEvent.file.decodable
    /\ modelImage # null
    /\ garmentImage # null
    /\ Len(history) > 0
    /\ generatedImage # null

\* The example of the specification: ids 3, 1, 2 with flags false, true,
\* false.
ExampleEntry(id, fav) ==
    [id |-> id, data |-> "R", mimeType |-> "image/png",
     aspectRatio |-> "portrait", isFavorite |-> fav]

\* C18: the display order is a permutation of the stored history (each
\* entry occurs as often in both) in which every favorite precedes every
\* non-favorite and, within each group, ids descend and the entries of equal
\* id are in their stored order; ids 3, 1, 2 with flags false, true, false
\* display as 1, 3, 2.
C18_DisplayOrder ==
    /\ Len(sortedHistory) = Len(history)
    /\ \A k \in 1..Len(history) :
          LET Same(e) == e = history[k]
              Tied(e) == /\ e.id = history[k].id
                         /\ e.isFavorite = history[k].isFavorite
          IN  /\ Len(SelectSeq(sortedHistory, Same))
                   = Len(SelectSeq(history, Same))
              /\ SelectSeq(sortedHistory, Tied) = SelectSeq(history, Tied)
    /\ \A i, j \in 1..Len(sortedHistory) :
          i < j =>
             /\ sortedHistory[j].isFavorite => sortedHistory[i].isFavorite
             /\ sortedHistory[i].isFavorite = sortedHistory[j].isFavorite
                  => sortedHistory[i].id >= sortedHistory[j].id
    /\ StableSort(<<ExampleEntry(3, FALSE), ExampleEntry(1, TRUE),
                    ExampleEntry(2, FALSE)>>)
         = <<ExampleEntry(1, TRUE), ExampleEntry(3, FALSE),
             ExampleEntry(2, FALSE)>>

\* After a toggle the display order differs from the stored order, with a
\* favorite moved ahead of a newer entry and two different entries of equal
\* id in one group.
C18_Witness ==
    /\ lastEvent.op = "ToggleFavorite"
    /\ sortedHistory # history
    /\ \E i, j \in 1..Len(history) :
          /\ i < j
          /\ history[i].id > history[j].id
          /\ history[j].isFavorite /\ ~history[i].isFavorite
    /\ \E i, j \in 1..Len(history) :
          /\ i < j
          /\ history[i].id = history[j].id
          /\ history[i].isFavorite = history[j].isFavorite
          /\ history[i].data # history[j].data

\* C19: a toggle flips the favorite flag of each history entry whose id
\* is the one given and leaves every other entry, the stored order and the
\* length unchanged; when no entry has that id the history is unchanged.
C19_ToggleFrame ==
    [][lastEvent'.op = "ToggleFavorite" =>
         /\ Len(history') = Len(history)
         /\ \A k \in 1..Len(history) :
               history'[k] =
                  (IF history[k].id = lastEvent'.id
                   THEN [history[k] EXCEPT !.isFavorite = ~@]
                   ELSE history[k])
         /\ (\A k \in 1..Len(history) : history[k].id # lastEvent'.id) =>
               history' = history]_vars

\* An entry in the middle of a history of other entries was made favorite.
C19_Witness ==
    /\ lastEvent.op = "ToggleFavorite"
    /\ Len(history) >= 3
    /\ \E k \in 2..(Len(history) - 1) :
          /\ history[k].id = lastEvent.id
          /\ history[k].isFavorite
          /\ history[k - 1].id # lastEvent.id
          /\ ~history[k - 1].isFavorite

\* C21 as stated: when the ingestion of a file fails to decode, the error
\* state of the page is set, as it is when a generation request fails.
C21_DecodeErrorSetsError ==
    [][lastEvent'.op = "IngestReject" => error' # NoError]_vars

\* C22 as stated: while a slot keeps the id of its image, the encoded data
\* and the media type of that image do not change: an upload that changes
\* the content of a slot gives the slot an image with another id, and a
\* change of the aspect ratio alone keeps the id.
C22_IdFixesContent ==
    [][\A k \in {"vto-modelImage", "vto-garmentImage"} :
          /\ (Field(k) # null /\ Field(k)' # null
                 /\ Field(k)'.id = Field(k).id) =>
                /\ Field(k)'.data = Field(k).data
                /\ Field(k)'.mimeType = Field(k).mimeType
          /\ (lastEvent'.op = "AspectRatioChange" /\ Field(k) # null) =>
                Field(k)' # null /\ Field(k)'.id = Field(k).id]_vars

\* C23: provided the pending collaborator calls settle, every start of a
\* generation request is followed by a state in which a call has just
\* settled and the loading flag is false, with a new image as activeResult
\* and head of the history (the call resolved) or with the error state set
\* (the call failed).
C23_PendingResolves ==
    (lastEvent.op = "GenerateStart" /\ isLoading)
       ~> \/ /\ lastEvent.op = "GenerateSucceed"
             /\ ~isLoading
             /\ generatedImage # null
             /\ Len(history) > 0 /\ history[1] = generatedImage
          \/ /\ lastEvent.op = "GenerateFail"
             /\ ~isLoading
             /\ error # NoError

\* A request was started after a Clear All while an earlier call was still
\* pending, and a call then failed.
C23_Witness ==
    /\ lastEvent.op = "GenerateFail"
    /\ ~isLoading
    /\ error # NoError
    /\ inflight > 0

\* C24 as stated: a generation or an ingestion that was in flight when
\* Clear All ran repopulates nothing when it resolves: when the step after
\* Clear All is the resolution of such a call, both slots, the history and
\* activeResult are still empty.
C24_ClearDiscardsInFlight ==
    [][(lastEvent.op = "Clear"
          /\ lastEvent'.op \in {"GenerateSucceed", "IngestResolve"}) =>
         /\ modelImage' = null
         /\ garmentImage' = null
         /\ history' = <<>>
         /\ generatedImage' = null]_vars

\* C25 as stated: in every reachable state the loading flag is true exactly
\* when a collaborator call is pending.
C25_LoadingIffInFlight == isLoading <=> inflight > 0

\* C26: in every reachable state an activeResult that is not none is an
\* entry of the history: some entry has its id and its favorite flag, and
\* the rest of its fields.
C26_ActiveResultInHistory ==
    generatedImage # null =>
        /\ \E k \in 1..Len(history) :
              /\ history[k].id = generatedImage.id
              /\ history[k].isFavorite = generatedImage.isFavorite
        /\ \E k \in 1..Len(history) : history[k] = generatedImage

\* An older entry was selected and then made favorite: activeResult is a
\* favorite and not the head of the history.
C26_Witness ==
    /\ lastEvent.op = "ToggleFavorite"
    /\ generatedImage # null
    /\ generatedImage.isFavorite
    /\ generatedImage.id = lastEvent.id
    /\ Len(history) >= 2
    /\ history[1].id # generatedImage.id

\* C27 as stated: in every reachable state in which the open flag of the
\* viewer is true, activeResult is not none.
C27_OpenViewerHasImage == isModalOpen => generatedImage # null

\* C28 as stated: when an entry of the history is selected while no
\* generation is loading, the result panel then shows the image branch with
\* that entry as activeResult, also when the error state is set.
C28_SelectShowsEntry ==
    [][(lastEvent'.op = "HistorySelect" /\ ~isLoading) =>
         /\ renderContent' = "image"
         /\ \E k \in 1..Len(history) : generatedImage' = history[k]]_vars

\* C29 as stated: in every reachable viewer state, dragging = true implies
\* zoom > 1.0.
C29_DraggingImpliesZoomed == isDragging => zoom > MIN_ZOOM

\* C30 as stated: for every file whose raster is at least 1 wide and 1 high,
\* the raster an ingestion stores is at least 1 wide and 1 high.
C30_OutputSizePositive ==
    [][(lastEvent'.op = "IngestResolve"
          /\ lastEvent'.file.width >= 1 /\ lastEvent'.file.height >= 1) =>
         /\ IngestedImage'.data.width >= 1
         /\ IngestedImage'.data.height >= 1]_vars

=============================================================================
